---- MODULE Spec2Model ----
(***************************************************************************)
(* Passport declaration service: the two POST /api/passport handlers       *)
(* (app/api/passport.py: ReportLab, directory pdf_output; main.py:         *)
(* xhtml2pdf, directory pdf_files), the retrieval handlers of main.py and  *)
(* the date reformatting helper of main.py.                                *)
(*                                                                         *)
(* A Python str is a sequence of one-character strings, so that splitting, *)
(* parsing and formatting are computed and not assumed.                    *)
(***************************************************************************)
EXTENDS Integers, Sequences, FiniteSets, Bags, TLC

VARIABLES
    pdf_output,   \* directory of app/api/passport.py: filename -> file content
    pdf_files,    \* directory of main.py: filename -> file content
    now,          \* wall clock, in seconds after the service started
    issued,       \* bag of the filenames the submit handlers generated
    granted,      \* success responses main.py's submit handler has returned
    req,          \* the request handled last
    resp,         \* the response to it
    before,       \* the two directories as they were when that request arrived
    handled,      \* number of requests counted against MaxFormRequests
    date_in,      \* the parts a date string was written from
    date_str,     \* argument of format_date
    date_out      \* outcome of format_date

vars == <<pdf_output, pdf_files, now, issued, granted, req, resp, before,
          handled, date_in, date_str, date_out>>

svc_vars == <<pdf_output, pdf_files, now, issued, granted, req, resp, before>>
date_vars == <<date_in, date_str, date_out>>

----------------------------------------------------------------------------
(* Bounds *)

\* the clock takes the values 0..MaxClock
MaxClock == 1
\* number of distinct values uuid4().hex[:8] is drawn from
NumTokens == 2
\* number of submissions that get past validation in one run of a handler
MaxSubmissions == 2
\* number of requests handled where every kind of body is submitted
MaxFormRequests == 1

----------------------------------------------------------------------------
(* Characters and strings *)

DigitChars == <<"0", "1", "2", "3", "4", "5", "6", "7", "8", "9">>

IsDigit(c) == \E i \in 1..10 : DigitChars[i] = c

DigitVal(c) == (CHOOSE i \in 1..10 : DigitChars[i] = c) - 1

DigitOf(n) == DigitChars[n + 1]

\* s[i], or "" past either end of s
At(s, i) == IF i \in 1..Len(s) THEN s[i] ELSE ""

\* '%02d' % n, for n < 100
Pad2(n) == <<DigitOf(n \div 10), DigitOf(n % 10)>>

\* '%04d' % n, for n < 10000
Pad4(n) == <<DigitOf(n \div 1000), DigitOf((n \div 100) % 10),
             DigitOf((n \div 10) % 10), DigitOf(n % 10)>>

----------------------------------------------------------------------------
(* datetime.strptime(date_str, "%Y-%m-%d") and strftime("%d %B, %Y") *)

MonthNames == <<
    <<"J","a","n","u","a","r","y">>,
    <<"F","e","b","r","u","a","r","y">>,
    <<"M","a","r","c","h">>,
    <<"A","p","r","i","l">>,
    <<"M","a","y">>,
    <<"J","u","n","e">>,
    <<"J","u","l","y">>,
    <<"A","u","g","u","s","t">>,
    <<"S","e","p","t","e","m","b","e","r">>,
    <<"O","c","t","o","b","e","r">>,
    <<"N","o","v","e","m","b","e","r">>,
    <<"D","e","c","e","m","b","e","r">> >>

\* directive %m: 1[0-2]|0[1-9]|[1-9]; number of characters matched at i, 0 if none
MonthLen(s, i) ==
    IF At(s, i) = "1" /\ At(s, i + 1) \in {"0", "1", "2"} THEN 2
    ELSE IF At(s, i) = "0" /\ IsDigit(At(s, i + 1)) /\ At(s, i + 1) # "0" THEN 2
    ELSE IF IsDigit(At(s, i)) /\ At(s, i) # "0" THEN 1
    ELSE 0

\* directive %d: 3[01]|[12]\d|0[1-9]|[1-9]| [1-9]
DayLen(s, i) ==
    IF At(s, i) = "3" /\ At(s, i + 1) \in {"0", "1"} THEN 2
    ELSE IF At(s, i) \in {"1", "2"} /\ IsDigit(At(s, i + 1)) THEN 2
    ELSE IF At(s, i) = "0" /\ IsDigit(At(s, i + 1)) /\ At(s, i + 1) # "0" THEN 2
    ELSE IF IsDigit(At(s, i)) /\ At(s, i) # "0" THEN 1
    ELSE IF At(s, i) = " " /\ IsDigit(At(s, i + 1)) /\ At(s, i + 1) # "0" THEN 2
    ELSE 0

\* int() of the digits of s at i..i+n-1, a leading blank skipped
NumAt(s, i, n) ==
    IF n = 1 THEN DigitVal(s[i])
    ELSE IF s[i] = " " THEN DigitVal(s[i + 1])
    ELSE 10 * DigitVal(s[i]) + DigitVal(s[i + 1])

IsLeap(y) == y % 4 = 0 /\ (y % 100 # 0 \/ y % 400 = 0)

DaysInMonth(y, m) ==
    IF m = 2 THEN (IF IsLeap(y) THEN 29 ELSE 28)
    ELSE IF m \in {4, 6, 9, 11} THEN 30
    ELSE 31

ParseError == [ok |-> FALSE, year |-> 0, month |-> 0, day |-> 0]

\* The format's regular expression is matched at the start of the string; a
\* match that stops short of its end ("unconverted data remains"), no match, or
\* a year, month and day that datetime refuses, is a ValueError.
strptime(s) ==
    IF ~ (\A i \in 1..4 : IsDigit(At(s, i))) \/ At(s, 5) # "-" THEN ParseError
    ELSE LET ml == MonthLen(s, 6)
         IN  IF ml = 0 \/ At(s, 6 + ml) # "-" THEN ParseError
             ELSE LET dp == 7 + ml
                      dl == DayLen(s, dp)
                  IN  IF dl = 0 \/ dp + dl - 1 # Len(s) THEN ParseError
                      ELSE LET y == 1000 * DigitVal(s[1]) + 100 * DigitVal(s[2])
                                    + 10 * DigitVal(s[3]) + DigitVal(s[4])
                               m == NumAt(s, 6, ml)
                               d == NumAt(s, dp, dl)
                           IN  IF y < 1 \/ d > DaysInMonth(y, m) THEN ParseError
                               ELSE [ok |-> TRUE, year |-> y, month |-> m, day |-> d]

\* "%d %B, %Y" in the C locale, for years of four digits
strftime(t) ==
    Pad2(t.day) \o <<" ">> \o MonthNames[t.month] \o <<",", " ">> \o Pad4(t.year)

\* format_date without its except clause
format_date_no_except(s) ==
    LET t == strptime(s)
    IN  IF t.ok THEN [raised |-> FALSE, value |-> strftime(t)]
        ELSE [raised |-> TRUE, value |-> <<>>]

\* main.py format_date: the bare except turns every failure into the input
format_date(s) ==
    LET t == strptime(s)
    IN  IF t.ok THEN [raised |-> FALSE, value |-> strftime(t)]
        ELSE [raised |-> FALSE, value |-> s]

----------------------------------------------------------------------------
(* The request body: a JSON object *)

Fields == {"date", "designation", "joiningDate", "nationality", "passportNumber",
           "issueLocation", "issueDate", "expiryDate", "employeeName",
           "employeeCode", "signature"}

\* a JSON member: a string, null, or no member of that name in the object
Str(chars) == [type |-> "string", chars |-> chars]
Null == [type |-> "null", chars |-> <<>>]
Absent == [type |-> "absent", chars |-> <<>>]

NoBody == [f \in Fields |-> Absent]

\* the fields declared Optional[str] = "": a missing field is no error
BaseModel_optional(body) ==
    LET bad == {f \in Fields : body[f].type = "null"}
    IN  [ok |-> bad = {}, errors |-> bad, form |-> [f \in Fields |-> body[f].chars]]

\* pydantic BaseModel with eleven fields annotated str: a field that is absent
\* or is not a string is an error naming the field; any string is accepted
BaseModel(body) ==
    LET bad == {f \in Fields : body[f].type # "string"}
    IN  [ok |-> bad = {}, errors |-> bad, form |-> [f \in Fields |-> body[f].chars]]

PassportForm(body) == BaseModel(body)

PassportDeclaration(body) == BaseModel(body)

----------------------------------------------------------------------------
(* Signature decoding of app/api/passport.py *)

Base64Alphabet == {
    "A","B","C","D","E","F","G","H","I","J","K","L","M","N","O","P",
    "Q","R","S","T","U","V","W","X","Y","Z","a","b","c","d","e","f",
    "g","h","i","j","k","l","m","n","o","p","q","r","s","t","u","v",
    "w","x","y","z","0","1","2","3","4","5","6","7","8","9","+","/" }

\* str.split(sep): the pieces of s between the occurrences of sep
split(s, sep) ==
    LET at == {i \in 1..Len(s) : s[i] = sep}
        \* position of the k-th separator; 0 and Len(s) + 1 bracket the string
        pos(k) == IF k = 0 THEN 0
                  ELSE IF k > Cardinality(at) THEN Len(s) + 1
                  ELSE CHOOSE i \in at : Cardinality({j \in at : j < i}) = k - 1
    IN  [k \in 1..(Cardinality(at) + 1) |-> SubSeq(s, pos(k - 1) + 1, pos(k) - 1)]

\* base64.b64decode without validation (binascii.a2b_base64). The scan keeps
\* quad_pos, the number of data characters read modulo 4, and pads, the number
\* of "=" read since the last data character while quad_pos >= 2. Characters
\* outside the alphabet are skipped; a "=" with quad_pos >= 2 and
\* quad_pos + pads >= 4 ends the input; input that ends with quad_pos # 0 is an
\* error. The decoded bytes are represented by the data characters they were
\* decoded from.
b64decode(s) ==
    LET data == {i \in 1..Len(s) : s[i] \in Base64Alphabet}
        quad_pos(i) == Cardinality({j \in data : j < i}) % 4
        pads(i) == Cardinality({j \in 1..i : /\ s[j] = "="
                                              /\ ~ \E k \in data : j < k /\ k < i})
        stops == {i \in 1..Len(s) : /\ s[i] = "="
                                    /\ quad_pos(i) >= 2
                                    /\ quad_pos(i) + pads(i) >= 4}
        end == IF stops = {} THEN Len(s) + 1
               ELSE CHOOSE i \in stops : \A j \in stops : i <= j
        kept == {i \in data : i < end}
        nth(k) == CHOOSE i \in kept : Cardinality({j \in kept : j < i}) = k - 1
    IN  [ok |-> stops # {} \/ Cardinality(data) % 4 = 0,
         data |-> [k \in 1..Cardinality(kept) |-> s[nth(k)]]]

DataUriPrefix == <<"d","a","t","a",":","i","m","a","g","e","/","p","n","g",";","b","a","s","e","6","4",",">>

\* a 1x1 greyscale PNG, base64 encoded
PngPayload == <<
    "i","V","B","O","R","w","0","K","G","g","o","A","A","A","A","N","S","U","h","E","U","g","A","A",
    "A","A","E","A","A","A","A","B","C","A","A","A","A","A","A","6","f","p","t","V","A","A","A","A",
    "C","k","l","E","Q","V","R","4","n","G","N","g","A","A","A","A","A","g","A","B","S","K","+","k",
    "c","Q","A","A","A","A","B","J","R","U","5","E","r","k","J","g","g","g","=","=" >>

\* base64 of the five bytes "hello": decodes, but is no image
TextPayload == <<"a","G","V","s","b","G","8","=">>

\* ends inside a quantum: "Incorrect padding"
TruncatedPayload == <<"i","V","B","O","R">>

\* reportlab Image on a byte stream reads the image when it is constructed;
\* of the byte strings submitted here the PNG is the one it can read
ImageReadable(data) == data = SubSeq(PngPayload, 1, Len(PngPayload) - 2)

----------------------------------------------------------------------------
(* Inputs *)

Codes == {<<"E","1","2","3">>, <<"E","1","2","4">>}

IsoDate == <<"2","0","2","4","-","0","3","-","0","5">>
NotADate == <<"n","o","t","-","a","-","d","a","t","e">>
Dates == {IsoDate, NotADate}

GoodSignature == DataUriPrefix \o PngPayload
Signatures == {GoodSignature,                    \* well-formed data URI
               PngPayload,                       \* no comma-separated prefix
               DataUriPrefix \o TruncatedPayload, \* payload is not base64
               DataUriPrefix \o TextPayload}     \* payload is no image

DefaultForm == [date |-> IsoDate, designation |-> <<"E","n","g">>, joiningDate |-> IsoDate,
                nationality |-> <<"P","K">>, passportNumber |-> <<"A","B","1">>,
                issueLocation |-> <<"D","X","B">>, issueDate |-> IsoDate,
                expiryDate |-> IsoDate, employeeName |-> <<"A","l","i">>,
                employeeCode |-> <<"E","1","2","3">>, signature |-> GoodSignature]

DefaultBody == [f \in Fields |-> Str(DefaultForm[f])]

\* the signature decoded from the text before the first comma
SignatureSteps_first(g) ==
    LET parts == split(g, ",")
        decoded == b64decode(parts[1])
    IN  IF ~ decoded.ok THEN [error |-> "binascii.Error", image |-> <<>>]
        ELSE IF ~ ImageReadable(decoded.data) THEN [error |-> "image", image |-> <<>>]
        ELSE [error |-> "", image |-> decoded.data]

\* lines 122-126 of app/api/passport.py on a signature: IndexError,
\* binascii.Error, an unreadable image, or the image
SignatureSteps(g) ==
    LET parts == split(g, ",")
        decoded == b64decode(parts[2])
    IN  IF Len(parts) < 2 THEN [error |-> "IndexError", image |-> <<>>]
        ELSE IF ~ decoded.ok THEN [error |-> "binascii.Error", image |-> <<>>]
        ELSE IF ~ ImageReadable(decoded.data) THEN [error |-> "image", image |-> <<>>]
        ELSE [error |-> "", image |-> decoded.data]

\* the same, computed once for each signature that is submitted
SignatureTable ==
    {[signature |-> g, steps |-> SignatureSteps(g)] : g \in Signatures \cup {<<>>}}

\* bodies of eleven non-empty strings that differ in the employee code
PlainBodies == {[DefaultBody EXCEPT !["employeeCode"] = Str(c)] : c \in Codes}

\* bodies of eleven non-empty strings
FullBodies ==
    {[DefaultBody EXCEPT !["employeeCode"] = Str(c), !["signature"] = Str(g)] :
        c \in Codes, g \in Signatures}
      \cup {[DefaultBody EXCEPT !["date"] = Str(d)] : d \in Dates}

\* bodies in which one field is missing, null or the empty string
OneOffBodies ==
    {[DefaultBody EXCEPT ![f] = v] : f \in Fields, v \in {Absent, Null, Str(<<>>)}}

Bodies == FullBodies \cup OneOffBodies

\* the values of uuid.uuid4().hex[:8]
Tokens == {<<"0","0","0","0","0","0","0">> \o <<DigitOf(i)>> : i \in 1..NumTokens}

----------------------------------------------------------------------------
(* Files and responses *)

NoDoc == [f \in Fields |-> <<>>]
NoContent == [kind |-> "none", doc |-> NoDoc]
Pdf(doc) == [kind |-> "pdf", doc |-> doc]
\* what is on disk when the writer stopped before the document was complete
Partial(doc) == [kind |-> "partial", doc |-> doc]

EmptyDir == [n \in {} |-> NoContent]

\* open(path, "wb") followed by the writes: the file is created, or an
\* existing file of that name is truncated and written over
WriteFile(dir, name, content) ==
    [n \in DOMAIN dir \cup {name} |-> IF n = name THEN content ELSE dir[n]]

\* os.path.exists(os.path.join(dir, filename))
exists(dir, name) == name \in DOMAIN dir

NoResp == [status |-> 0, error |-> "", fields |-> {}, pdf_file |-> <<>>,
           download_url |-> <<>>, view_url |-> <<>>, file |-> NoContent,
           disposition |-> ""]

NoReq == [op |-> "none", body |-> NoBody, path |-> <<>>]

Snapshot == [pdf_output |-> pdf_output, pdf_files |-> pdf_files]

----------------------------------------------------------------------------
(* app/api/passport.py *)

\* datetime.now().strftime('%Y%m%d%H%M%S'): one value per second
Timestamp(t) == <<"2","0","2","4","0","3","0","5","1","2","0","0">> \o Pad2(t)

filename1(code, t) == <<"p","a","s","s","p","o","r","t","_">> \o code \o <<"_">> \o Timestamp(t) \o <<".","p","d","f">>

OutputDir == <<"p","d","f","_","o","u","t","p","u","t","/">>

\* the story handed to doc.build: the fields as submitted, the decoded image
story(form, image) == [form EXCEPT !["signature"] = image]

\* outcomes of doc.build(story): the document is laid out and then saved
BuildOutcomes == {"ok", "layout_error", "write_error"}

create_passport(body) ==
    LET v == PassportForm(body)
        form == v.form
        filename == filename1(form["employeeCode"], now)
        signature == (CHOOSE r \in SignatureTable : r.signature = form["signature"]).steps
        Fail(msg) == /\ resp' = [NoResp EXCEPT !.status = 500, !.error = msg]
                     /\ UNCHANGED pdf_output
    IN  /\ req' = [op |-> "submit1", body |-> body, path |-> <<>>]
        /\ before' = Snapshot
        /\ UNCHANGED <<pdf_files, now, granted>>
        /\ IF ~ v.ok
           THEN \* the framework answers before the handler runs
                /\ resp' = [NoResp EXCEPT !.status = 422, !.error = "validation",
                                          !.fields = v.errors]
                /\ UNCHANGED <<pdf_output, issued>>
           ELSE /\ issued' = issued (+) SetToBag({filename})
                /\ IF signature.error # "" THEN Fail(signature.error)
                   ELSE \E outcome \in BuildOutcomes :
                        LET doc == story(form, signature.image)
                        IN  CASE outcome = "ok" ->
                                   /\ pdf_output' = WriteFile(pdf_output, filename, Pdf(doc))
                                   /\ resp' = [NoResp EXCEPT !.status = 200,
                                                  !.pdf_file = OutputDir \o filename]
                              [] outcome = "layout_error" -> Fail("build")
                              [] outcome = "write_error" ->
                                   /\ pdf_output' = WriteFile(pdf_output, filename, Partial(doc))
                                   /\ resp' = [NoResp EXCEPT !.status = 500, !.error = "build"]

\* POST /api/passport with a body of B, while fewer than max bodies were accepted
Submit1(B, max) ==
    \E body \in B :
        /\ PassportForm(body).ok => BagCardinality(issued) < max
        /\ create_passport(body)

----------------------------------------------------------------------------
(* main.py *)

filename2(code, token) == <<"p","a","s","s","p","o","r","t","_","d","e","c","l","a","r","a","t","i","o","n","_">> \o code \o <<"_">> \o token \o <<".","p","d","f">>

DownloadPrefix == <<"/","d","o","w","n","l","o","a","d","/">>
ViewPrefix == <<"/","v","i","e","w","/">>

DateFields == {"date", "joiningDate", "issueDate", "expiryDate"}

\* the template is fixed text; the document is the eleven values put into it,
\* the four dates through format_date
\* format_date, computed once for each date string that is submitted
FormatTable == {[date_str |-> d, out |-> format_date(d)] : d \in Dates \cup {<<>>}}

generate_pdf_html(form) ==
    LET shown == [f \in DateFields |->
                    (CHOOSE r \in FormatTable : r.date_str = form[f]).out]
    IN  [raised |-> \E f \in DateFields : shown[f].raised,
         html |-> [f \in Fields |-> IF f \in DateFields THEN shown[f].value
                                    ELSE form[f]]]

\* outcomes of open(filepath, "wb") and pisa.CreatePDF(html_content, dest=f):
\* open fails; the engine writes the document; it reports an error in
\* pisa_status.err; it raises
RenderOutcomes == {"open_error", "ok", "err", "raise"}

submit_passport_declaration(body) ==
    LET v == PassportDeclaration(body)
        form == v.form
        page == generate_pdf_html(form)
        \* every exception, the HTTPException of line 74 too, leaves through
        \* the handler's except clause as status 500
        Error(msg) == [NoResp EXCEPT !.status = 500, !.error = msg]
    IN  /\ req' = [op |-> "submit2", body |-> body, path |-> <<>>]
        /\ before' = Snapshot
        /\ UNCHANGED <<pdf_output, now>>
        /\ IF ~ v.ok
           THEN /\ resp' = [Error("validation") EXCEPT !.fields = v.errors]
                /\ UNCHANGED <<pdf_files, issued, granted>>
           ELSE /\ \E token \in Tokens, outcome \in RenderOutcomes :
                     LET filename == filename2(form["employeeCode"], token)
                         ok == [NoResp EXCEPT !.status = 200,
                                              !.pdf_file = filename,
                                              !.download_url = DownloadPrefix \o filename,
                                              !.view_url = ViewPrefix \o filename]
                     IN  /\ issued' = issued (+) SetToBag({filename})
                         /\ IF page.raised
                            THEN /\ resp' = Error("format_date")
                                 /\ UNCHANGED <<pdf_files, granted>>
                            ELSE CASE outcome = "open_error" ->
                                        /\ resp' = Error("open")
                                        /\ UNCHANGED <<pdf_files, granted>>
                                   [] outcome = "ok" ->
                                        /\ pdf_files' = WriteFile(pdf_files, filename, Pdf(page.html))
                                        /\ resp' = ok
                                        /\ granted' = granted \cup
                                             {[pdf_file |-> ok.pdf_file,
                                               download_url |-> ok.download_url,
                                               view_url |-> ok.view_url]}
                                   [] outcome = "err" ->
                                        /\ pdf_files' = WriteFile(pdf_files, filename, Partial(page.html))
                                        /\ resp' = Error("PDF generation failed")
                                        /\ UNCHANGED granted
                                   [] outcome = "raise" ->
                                        /\ pdf_files' = WriteFile(pdf_files, filename, Partial(page.html))
                                        /\ resp' = Error("pisa")
                                        /\ UNCHANGED granted

Submit2(B, max) ==
    \E body \in B :
        /\ PassportDeclaration(body).ok => BagCardinality(issued) < max
        /\ submit_passport_declaration(body)

\* the router's match of a path against "<prefix>{filename}": the parameter is
\* what follows the prefix, and holds no "/"
HasPrefix(path, prefix) ==
    /\ Len(path) > Len(prefix)
    /\ SubSeq(path, 1, Len(prefix)) = prefix
    /\ \A i \in (Len(prefix) + 1)..Len(path) : path[i] # "/"

PathParam(path, prefix) == SubSeq(path, Len(prefix) + 1, Len(path))

FileResponse(dir, filename, disposition) ==
    [NoResp EXCEPT !.status = 200, !.file = dir[filename], !.disposition = disposition]

NotFound == [NoResp EXCEPT !.status = 404, !.error = "File not found"]

\* download_pdf looking in the directory of the other handler
download_pdf_other_dir(filename) ==
    /\ resp' = IF ~ exists(pdf_output, filename) THEN NotFound
               ELSE FileResponse(pdf_output, filename, "attachment")
    /\ UNCHANGED <<pdf_output, pdf_files, now, issued, granted>>

download_pdf(filename) ==
    /\ resp' = IF ~ exists(pdf_files, filename) THEN NotFound
               ELSE FileResponse(pdf_files, filename, "attachment")
    /\ UNCHANGED <<pdf_output, pdf_files, now, issued, granted>>

\* view_pdf without the check of lines 106-107: FileResponse fails on a missing file
view_pdf_no_check(filename) ==
    /\ resp' = IF ~ exists(pdf_files, filename)
               THEN [NoResp EXCEPT !.status = 500, !.error = "RuntimeError"]
               ELSE FileResponse(pdf_files, filename, "inline")
    /\ UNCHANGED <<pdf_output, pdf_files, now, issued, granted>>

view_pdf(filename) ==
    /\ resp' = IF ~ exists(pdf_files, filename) THEN NotFound
               ELSE FileResponse(pdf_files, filename, "inline")
    /\ UNCHANGED <<pdf_output, pdf_files, now, issued, granted>>

\* the filenames asked for: every name main.py can generate, a name of the
\* other handler, and a name nobody generates
MissingName == <<"m","i","s","s","i","n","g",".","p","d","f">>
RequestedNames ==
    {filename2(c, k) : c \in Codes, k \in Tokens}
        \cup {filename1(<<"E","1","2","3">>, 0), MissingName}

Download ==
    \E n \in RequestedNames :
        LET path == DownloadPrefix \o n
        IN  /\ HasPrefix(path, DownloadPrefix)
            /\ req' = [op |-> "download", body |-> NoBody, path |-> path]
            /\ before' = Snapshot
            /\ download_pdf(PathParam(path, DownloadPrefix))

View ==
    \E n \in RequestedNames :
        LET path == ViewPrefix \o n
        IN  /\ HasPrefix(path, ViewPrefix)
            /\ req' = [op |-> "view", body |-> NoBody, path |-> path]
            /\ before' = Snapshot
            /\ view_pdf(PathParam(path, ViewPrefix))

health_check ==
    /\ req' = [op |-> "health", body |-> NoBody, path |-> <<"/","h","e","a","l","t","h">>]
    /\ before' = Snapshot
    /\ resp' = [NoResp EXCEPT !.status = 200]
    /\ UNCHANGED <<pdf_output, pdf_files, now, issued, granted>>

\* a second passes
Tick ==
    /\ now < MaxClock
    /\ now' = now + 1
    /\ UNCHANGED <<pdf_output, pdf_files, issued, granted, req, resp, before>>

----------------------------------------------------------------------------
(* The service *)

NoDate == [kind |-> "none", y |-> 0, m |-> 0, d |-> 0, padm |-> FALSE,
           padd |-> FALSE, sep |-> "-", tail |-> <<>>]
NoOutcome == [called |-> FALSE, raised |-> FALSE, value |-> <<>>]

\* os.makedirs(..., exist_ok=True) and pdf_folder.mkdir(exist_ok=True) at import
Init ==
    /\ pdf_output = EmptyDir
    /\ pdf_files = EmptyDir
    /\ now = 0
    /\ issued = EmptyBag
    /\ granted = {}
    /\ req = NoReq
    /\ resp = NoResp
    /\ before = [pdf_output |-> EmptyDir, pdf_files |-> EmptyDir]
    /\ handled = 0
    /\ date_in = NoDate
    /\ date_str = <<>>
    /\ date_out = NoOutcome

\* app/api/passport.py under bodies that differ in the employee code
Next1 ==
    \/ Submit1(PlainBodies, MaxSubmissions) /\ UNCHANGED <<handled, date_vars>>
    \/ Tick /\ UNCHANGED <<handled, date_vars>>

Spec1 == Init /\ [][Next1]_vars

\* main.py under bodies that differ in the employee code
Next2 ==
    \/ Submit2(PlainBodies, MaxSubmissions) /\ UNCHANGED <<handled, date_vars>>
    \/ Download /\ UNCHANGED <<handled, date_vars>>
    \/ View /\ UNCHANGED <<handled, date_vars>>
    \/ health_check /\ UNCHANGED <<handled, date_vars>>

Spec2 == Init /\ [][Next2]_vars

\* both submit handlers under every kind of body
Count ==
    /\ handled < MaxFormRequests
    /\ handled' = handled + 1
    /\ UNCHANGED date_vars

NextForm ==
    \/ Count /\ Submit1(Bodies, MaxSubmissions)
    \/ Count /\ Submit2(Bodies, MaxSubmissions)

SpecForm == Init /\ [][NextForm]_vars

----------------------------------------------------------------------------
(* format_date on its own *)

Years == {0, 1900, 2000, 2023, 2024}

\* a date written as year, separator, month, separator, day and a tail, the
\* month and the day with or without a leading zero
DateParts ==
    [kind : {"ymd"}, y : Years, m : 0..13, d : 0..32, padm : BOOLEAN,
     padd : BOOLEAN, sep : {"-", "/"}, tail : {<<>>, <<"T">>}]

Number(n, pad) == IF pad \/ n >= 10 THEN Pad2(n) ELSE <<DigitOf(n)>>

Compose(p) ==
    Pad4(p.y) \o <<p.sep>> \o Number(p.m, p.padm) \o <<p.sep>>
        \o Number(p.d, p.padd) \o p.tail

InitDate ==
    /\ pdf_output = EmptyDir
    /\ pdf_files = EmptyDir
    /\ now = 0
    /\ issued = EmptyBag
    /\ granted = {}
    /\ req = NoReq
    /\ resp = NoResp
    /\ before = [pdf_output |-> EmptyDir, pdf_files |-> EmptyDir]
    /\ handled = 0
    /\ date_out = NoOutcome
    /\ \/ \E p \in DateParts : date_in = p /\ date_str = Compose(p)
       \/ \E t \in {NotADate, <<>>} : date_in = NoDate /\ date_str = t

FormatDate ==
    /\ ~ date_out.called
    /\ date_out' = [called |-> TRUE, raised |-> format_date(date_str).raised,
                    value |-> format_date(date_str).value]
    /\ UNCHANGED <<svc_vars, handled, date_in, date_str>>

NextDate == FormatDate

SpecDate == InitDate /\ [][NextDate]_vars

----------------------------------------------------------------------------
(* Properties *)

Submits == {"submit1", "submit2"}
Retrievals == {"download", "view"}

DirsUnchanged ==
    /\ pdf_output = before.pdf_output
    /\ pdf_files = before.pdf_files

\* the filename a retrieval request asks for
Requested ==
    IF req.op = "download" THEN PathParam(req.path, DownloadPrefix)
    ELSE PathParam(req.path, ViewPrefix)

\* C1: two submissions with the same employee code never get the same
\* filename: no filename is generated twice.
C1_DistinctFilenames ==
    \A n \in BagToSet(issued) : CopiesIn(n, issued) <= 1

\* C2: after POST /api/passport (main.py) ends with an error, the output
\* directory holds exactly the files it held before the request.
C2_FailedRenderLeavesNoFile ==
    (req.op = "submit2" /\ resp.status >= 400) => pdf_files = before.pdf_files

\* C3: a submission whose body lacks one of the eleven fields ends with an
\* error response and leaves both output directories as they were.
C3_MissingFieldRejected ==
    (req.op \in Submits /\ \E f \in Fields : req.body[f].type = "absent")
        => (resp.status >= 400 /\ DirsUnchanged)

C3_Witness ==
    /\ req.op = "submit2"
    /\ req.body["employeeCode"].type = "absent"
    /\ resp.status = 500
    /\ resp.fields = {"employeeCode"}
    /\ pdf_files = EmptyDir

\* C4: the output directory is append-only: every file that was there before a
\* request is there after it with the same content, and a submission that
\* succeeds has added its file under a name that was not there before.
C4_AppendOnly ==
    /\ \A n \in DOMAIN before.pdf_output :
          n \in DOMAIN pdf_output /\ pdf_output[n] = before.pdf_output[n]
    /\ \A n \in DOMAIN before.pdf_files :
          n \in DOMAIN pdf_files /\ pdf_files[n] = before.pdf_files[n]
    /\ (req.op = "submit1" /\ resp.status = 200)
          => SubSeq(resp.pdf_file, Len(OutputDir) + 1, Len(resp.pdf_file))
                 \notin DOMAIN before.pdf_output
    /\ (req.op = "submit2" /\ resp.status = 200)
          => resp.pdf_file \notin DOMAIN before.pdf_files

\* C5: the pdf_file, download_url and view_url of every success response of
\* main.py's submit handler name one file, that file is in pdf_files from then
\* on, and a later download or view of it is answered with the file, not 404.
C5_GrantedFileServed ==
    /\ \A g \in granted :
          /\ HasPrefix(g.download_url, DownloadPrefix)
          /\ PathParam(g.download_url, DownloadPrefix) = g.pdf_file
          /\ HasPrefix(g.view_url, ViewPrefix)
          /\ PathParam(g.view_url, ViewPrefix) = g.pdf_file
          /\ exists(pdf_files, g.pdf_file)
    /\ (req.op = "submit2" /\ resp.status = 200)
          => [pdf_file |-> resp.pdf_file, download_url |-> resp.download_url,
              view_url |-> resp.view_url] \in granted
    /\ (req.op \in Retrievals
            /\ \E g \in granted : req.path \in {g.download_url, g.view_url})
          => (resp.status = 200 /\ resp.file = pdf_files[Requested])

\* a granted file is downloaded after a submission that failed came in between
C5_Witness ==
    /\ req.op = "download"
    /\ resp.status = 200
    /\ \E g \in granted : req.path = g.download_url
    /\ \E n \in DOMAIN pdf_files : pdf_files[n].kind = "partial"
    /\ Cardinality(granted) = 1

\* C6: a download or view of a file that is in pdf_files returns the content
\* of that file, of a file that is not it returns 404, in both cases the
\* directories are left as they were, and the same request repeated gets the
\* same response.
C6_RetrievalState ==
    req.op \in Retrievals =>
        /\ DirsUnchanged
        /\ IF Requested \in DOMAIN pdf_files
           THEN resp.status = 200 /\ resp.file = pdf_files[Requested]
           ELSE resp.status = 404

C6_RetrievalRepeat ==
    (req.op \in Retrievals /\ req' = req) => resp' = resp

C7_EmptyFieldRejected ==
    (req.op \in Submits /\ \E f \in Fields : req.body[f] = Str(<<>>))
        => (resp.error = "validation" /\ DirsUnchanged)

\* C8: in both handlers a body with a missing or mistyped field gets a 4xx
\* response that names the offending field.
C8_ValidationIsClientError ==
    (req.op \in Submits /\ \E f \in Fields : req.body[f].type # "string")
        => /\ resp.status \in 400..499
           /\ resp.fields = {f \in Fields : req.body[f].type # "string"}

\* a signature "data:image/png;base64," followed by base64 text
WellFormedSignatures == {DataUriPrefix \o PngPayload, DataUriPrefix \o TextPayload}

HasComma(g) == \E i \in 1..Len(g) : g[i] = ","

\* C9: in app/api/passport.py a validated submission with a well-formed
\* data-URI signature gets through the split and the base64 decoding without
\* error, and one whose signature has no comma ends with an error each time,
\* with no file written.
C9_SignatureDecoding ==
    (req.op = "submit1" /\ \A f \in Fields : req.body[f].type = "string") =>
        /\ req.body["signature"].chars \in WellFormedSignatures
              => resp.error \notin {"IndexError", "binascii.Error"}
        /\ ~ HasComma(req.body["signature"].chars)
              => (resp.status = 500 /\ resp.error = "IndexError" /\ DirsUnchanged)

C9_Witness ==
    /\ req.op = "submit1"
    /\ req.body["signature"] = Str(PngPayload)
    /\ resp.status = 500
    /\ resp.error = "IndexError"

\* days of month m of year y in the Gregorian calendar
CalendarDays(y, m) ==
    CASE m \in {1, 3, 5, 7, 8, 10, 12} -> 31
      [] m \in {4, 6, 9, 11} -> 30
      [] m = 2 -> IF (y % 4 = 0 /\ y % 100 # 0) \/ y % 400 = 0 THEN 29 ELSE 28

\* the string was written as year-month-day of a date of the calendar
IsCalendarDate(p) ==
    /\ p.kind = "ymd"
    /\ p.sep = "-"
    /\ p.tail = <<>>
    /\ p.y >= 1
    /\ p.m \in 1..12
    /\ p.d \in 1..CalendarDays(p.y, p.m)

LongForm(p) == Pad2(p.d) \o <<" ">> \o MonthNames[p.m] \o <<",", " ">> \o Pad4(p.y)

\* C10: format_date never raises; it returns 'DD Month, YYYY' for a string
\* that is a YYYY-MM-DD date of the calendar and its argument otherwise.
C10_FormatDateTotal ==
    date_out.called =>
        /\ ~ date_out.raised
        /\ date_out.value = IF IsCalendarDate(date_in) THEN LongForm(date_in)
                            ELSE date_str

C10_Witness ==
    /\ date_out.called
    /\ date_str = IsoDate
    /\ date_out.value = <<"0","5"," ","M","a","r","c","h",","," ","2","0","2","4">>

====
